---- MODULE Spec2Model ----
(***************************************************************************)
(* Model of utils/get-miners.py: get_miners() (fetch the neurons of a      *)
(* subnet's metagraph) and main() (write uid, coldkey, hotkey to           *)
(* ./output/miners.csv).                                                   *)
(*                                                                         *)
(* Conventions.                                                            *)
(*  - The text of the output file is a sequence of one-character strings,  *)
(*    so that the csv formatting (quoting, separators, line terminators)   *)
(*    is computed as csv.DictWriter computes it and can be read back.      *)
(*  - Hotkeys and coldkeys are sequences of characters as well.  They may  *)
(*    hold a delimiter or a quote character; they hold no line terminator. *)
(*  - A Python value that may be None is a record [isNone, val].           *)
(*  - A message built by an f-string is the pair <<literal text, argument>>*)
(*  - The SDK (bt.subtensor, metagraph) and the file system are the        *)
(*    environment: each call's outcome is chosen with \E.  Exceptions are  *)
(*    instances of Exception, the class the handlers catch.                *)
(*  - Stake values are whole units, incentive values are tenths.           *)
(*  - The command line is well formed (an integer netuid).                 *)
(***************************************************************************)
EXTENDS Integers, Sequences, FiniteSets, TLC

\* ------------------------------------------------------------------ bounds
MaxNeurons == 2
MaxUid == 10
MaxOldRows == 3

\* ------------------------------------------------------------ input domains
NetUids == {5}
Networks == {"finney", "local"}
\* str(e) of the exceptions the environment raises
ExcTexts == {"", "timeout"}
Uids == {0, 1, MaxUid}

hkA == <<"h", "k", "A">>
ckA == <<"c", "k", "A">>
hkComma == <<"h", ",", "B">>
ckQuote == <<"c", "\"", "B">>
KeyPairs == { [hotkey |-> hkA, coldkey |-> ckA],
              [hotkey |-> hkComma, coldkey |-> ckQuote] }

Neurons == { [uid |-> u, hotkey |-> k.hotkey, coldkey |-> k.coldkey] :
                u \in Uids, k \in KeyPairs }

\* the lists of at most n neurons with pairwise distinct uids
RECURSIVE NeuronLists(_)
NeuronLists(n) ==
    IF n = 0 THEN { <<>> }
    ELSE LET shorter == NeuronLists(n - 1)
             longest == { s \in shorter : Len(s) = n - 1 }
             fresh(s, x) == \A i \in 1..Len(s) : s[i].uid # x.uid
         IN  shorter \cup
             UNION { { Append(s, x) : x \in { y \in Neurons : fresh(s, y) } } :
                     s \in longest }

\* the S and I arrays of a metagraph: index u of the array is element u + 1
StakeVal(pat, u) == IF pat = "zero" THEN 0 ELSE 10 + u
IncentiveVal(pat, u) == IF pat = "zero" THEN 0 ELSE 5 + u
ArrLens == {1, MaxUid, MaxUid + 1}
ArrPats == {"zero", "ramp"}

Metagraphs ==
    { [truthy |-> t, neurons |-> l,
       S |-> [i \in 1..sl |-> StakeVal(p, i - 1)],
       I |-> [i \in 1..il |-> IncentiveVal(p, i - 1)]] :
         t \in BOOLEAN, l \in NeuronLists(MaxNeurons),
         sl \in ArrLens, il \in ArrLens, p \in ArrPats }

\* --------------------------------------------------------- Python values
None == [isNone |-> TRUE, val |-> <<>>]
Some(v) == [isNone |-> FALSE, val |-> v]

\* f"{literal}{arg}": the text is the literal followed by the argument
FString(literal, arg) == <<literal, arg>>
StrLen(msg) == Len(msg[1]) + Len(msg[2])

\* bool(x) of a value that is None, a str or a list: None, "" and [] are falsy
StrTruthy(e) == ~e.isNone /\ StrLen(e.val) > 0
ListTruthy(l) == ~l.isNone /\ Len(l.val) > 0

\* str(n) of a non-negative int
Digit(d) == CASE d = 0 -> "0" [] d = 1 -> "1" [] d = 2 -> "2" [] d = 3 -> "3"
              [] d = 4 -> "4" [] d = 5 -> "5" [] d = 6 -> "6" [] d = 7 -> "7"
              [] d = 8 -> "8" [] d = 9 -> "9"
RECURSIVE IntToStr(_)
IntToStr(n) == IF n < 10 THEN << Digit(n) >>
               ELSE IntToStr(n \div 10) \o << Digit(n % 10) >>

\* ------------------------------------------------------------- csv writer
\* the excel dialect of csv.DictWriter: delimiter ',', quotechar '"',
\* QUOTE_MINIMAL, doublequote, lineterminator '\r\n'
Delimiter == ","
QuoteChar == "\""
LineTerminator == <<"\r", "\n">>

\* variant: the key columns in the other order
fieldnamesSwapped == <<"uid", "hotkey", "coldkey">>
fieldnames == <<"uid", "coldkey", "hotkey">>

\* the characters of a field name
NameChars(name) ==
    CASE name = "uid" -> <<"u", "i", "d">>
      [] name = "coldkey" -> <<"c", "o", "l", "d", "k", "e", "y">>
      [] name = "hotkey" -> <<"h", "o", "t", "k", "e", "y">>
      [] name = "stake" -> <<"s", "t", "a", "k", "e">>
      [] name = "incentive" -> <<"i", "n", "c", "e", "n", "t", "i", "v", "e">>

\* a field is quoted when it holds the delimiter, the quote character or a
\* character of the line terminator
NeedsQuote(f) ==
    \E i \in 1..Len(f) : f[i] \in {Delimiter, QuoteChar, "\r", "\n"}

RECURSIVE DoubleQuotes(_)
DoubleQuotes(f) ==
    IF f = <<>> THEN <<>>
    ELSE (IF Head(f) = QuoteChar THEN <<QuoteChar, QuoteChar>> ELSE <<Head(f)>>)
         \o DoubleQuotes(Tail(f))

FormatField(f) ==
    IF NeedsQuote(f) THEN <<QuoteChar>> \o DoubleQuotes(f) \o <<QuoteChar>>
    ELSE f

RECURSIVE JoinFields(_)
JoinFields(fs) ==
    IF Len(fs) = 0 THEN <<>>
    ELSE IF Len(fs) = 1 THEN FormatField(fs[1])
    ELSE FormatField(fs[1]) \o <<Delimiter>> \o JoinFields(Tail(fs))

\* writer.writerow(list): the text appended to the file
FormatRow(fs) == JoinFields(fs) \o LineTerminator

\* the dict main() hands to writer.writerow for one miner
RowDict(miner) ==
    [uid |-> miner.uid, coldkey |-> miner.coldkey, hotkey |-> miner.hotkey]

\* DictWriter._dict_to_list: the values in fieldnames order, each as str()
DictToList(d) ==
    [i \in 1..Len(fieldnames) |->
        IF fieldnames[i] = "uid" THEN IntToStr(d[fieldnames[i]])
        ELSE d[fieldnames[i]]]

\* writer.writeheader(): the field names as a row
HeaderRow == FormatRow([i \in 1..Len(fieldnames) |-> NameChars(fieldnames[i])])

\* variant: the file opened in mode 'a', which keeps what it held
OpenForAppend(old) == old

\* open(output_file, 'w'): the content of the file right after the open
OpenForWrite(old) == <<>>

\* ------------------------------------------------------------ file system
output_dir == "./output"
output_file == "./output/miners.csv"

\* a file left at the output path by something else: a header and k rows
OldRow == FormatRow(<<IntToStr(7), <<"o", "l", "d", "C">>, <<"o", "l", "d", "H">>>>)
RECURSIVE OldRows(_)
OldRows(k) == IF k = 0 THEN <<>> ELSE OldRow \o OldRows(k - 1)
OldFiles == { HeaderRow \o OldRows(k) : k \in 0..MaxOldRows } \cup { <<>> }

\* dir: what ./output is ("absent", "dir", or "notdir": a regular file);
\* exists, content: ./output/miners.csv
FileSystems ==
    { [dir |-> d, exists |-> FALSE, content |-> <<>>] : d \in {"absent", "notdir", "dir"} }
    \cup { [dir |-> "dir", exists |-> TRUE, content |-> c] : c \in OldFiles }

\* ------------------------------------------------------------------ state
VARIABLES
    pc,           \* where the run is
    netuid,       \* args.netuid
    network,      \* args.network
    sub,          \* get_miners: the connection ("unset", "ok")
    metagraph,    \* get_miners: the metagraph (None until retrieved)
    idx,          \* get_miners: position of the for loop in metagraph.neurons
    miners_info,  \* get_miners: the list under construction
    miners,       \* main: first component of get_miners' result
    err,          \* main: second component of get_miners' result
    wIdx,         \* main: position of the for loop over miners
    fs,           \* the file system now
    fs0,          \* the file system when the run started
    stdout,       \* what was printed on standard output
    stderr,       \* what was printed on standard error
    exitCode,     \* the exit status, -1 while the process runs
    calls,        \* how many times each external operation was attempted
    fetchEnd,     \* how get_miners ended
    exportEnd     \* how the export ended

vars == <<pc, netuid, network, sub, metagraph, idx, miners_info, miners, err,
          wIdx, fs, fs0, stdout, stderr, exitCode, calls, fetchEnd, exportEnd>>

fetchVars == <<sub, metagraph, idx, miners_info>>
argVars == <<netuid, network>>

Init ==
    /\ pc = "start"
    /\ netuid \in NetUids
    /\ network \in Networks
    /\ sub = "unset"
    /\ metagraph = None
    /\ idx = 0
    /\ miners_info = <<>>
    /\ miners = None
    /\ err = None
    /\ wIdx = 0
    /\ fs \in FileSystems
    /\ fs0 = fs
    /\ stdout = <<>>
    /\ stderr = <<>>
    /\ exitCode = -1
    /\ calls = [connect |-> 0, metagraph |-> 0, makedirs |-> 0, open |-> 0]
    /\ fetchEnd = "pending"
    /\ exportEnd = "none"

\* ------------------------------------------------------------- get_miners
\* main() calls get_miners(args.netuid, args.network)
CallGetMiners ==
    /\ pc = "start"
    /\ pc' = "connect"
    /\ UNCHANGED <<argVars, fetchVars, miners, err, wIdx, fs, fs0, stdout,
                   stderr, exitCode, calls, fetchEnd, exportEnd>>

\* except Exception as e: the message of the error result
ExceptMessage(e) == FString("An error occurred: ", e)

\* get_miners returns (m, e) and main binds miners, err to it
Return(m, e, how) ==
    /\ miners' = m
    /\ err' = e
    /\ fetchEnd' = how
    /\ pc' = "check_err"

\* variant: get_miners without its except clause, the exception leaves it
RaisePropagates(e, how) ==
    /\ fetchEnd' = "raised"
    /\ pc' = "exited"
    /\ UNCHANGED <<miners, err>>

\* an exception raised inside the try block: except Exception as e:
\* return None, f"An error occurred: {e}"
Raise(e, how) == Return(None, Some(ExceptMessage(e)), how)

\* sub = bt.subtensor(network=network); if not sub: return None, ...
Connect ==
    /\ pc = "connect"
    /\ calls' = [calls EXCEPT !.connect = @ + 1]
    /\ \/ /\ sub' = "ok"
          /\ pc' = "metagraph"
          /\ UNCHANGED <<miners, err, fetchEnd>>
       \/ /\ Return(None,
                    Some(FString("Failed to connect to Bittensor network: ", network)),
                    "conn_falsy")
          /\ UNCHANGED sub
       \/ \E e \in ExcTexts :
          /\ Raise(e, "conn_raise")
          /\ UNCHANGED sub
    /\ UNCHANGED <<argVars, metagraph, idx, miners_info, wIdx, fs, fs0, stdout,
                   stderr, exitCode, exportEnd>>

\* metagraph = sub.metagraph(netuid=netuid); if not metagraph: return None, ...
GetMetagraph ==
    /\ pc = "metagraph"
    /\ calls' = [calls EXCEPT !.metagraph = @ + 1]
    /\ \/ \E mg \in Metagraphs :
          /\ metagraph' = Some(mg)
          /\ IF mg.truthy
             THEN /\ pc' = "loop"
                  /\ idx' = 1
                  /\ miners_info' = <<>>
                  /\ UNCHANGED <<miners, err, fetchEnd>>
             ELSE /\ Return(None,
                            Some(FString("Failed to retrieve metagraph for netuid: ",
                                         IntToStr(netuid))),
                            "mg_falsy")
                  /\ UNCHANGED <<idx, miners_info>>
       \/ \E e \in ExcTexts :
          /\ Raise(e, "mg_raise")
          /\ UNCHANGED <<metagraph, idx, miners_info>>
    /\ UNCHANGED <<argVars, sub, wIdx, fs, fs0, stdout, stderr, exitCode,
                   exportEnd>>

\* array[uid]: an index past the end raises IndexError
InRange(arr, uid) == uid + 1 <= Len(arr)
Item(arr, uid) == arr[uid + 1]

\* variant: the stake read from I and the incentive read from S
MinerDataSwapped(mg, neuron) ==
    [uid |-> neuron.uid,
     hotkey |-> neuron.hotkey,
     coldkey |-> neuron.coldkey,
     stake |-> Item(mg.I, neuron.uid),
     incentive |-> Item(mg.S, neuron.uid)]

\* the dict built for one neuron
MinerData(mg, neuron) ==
    [uid |-> neuron.uid,
     hotkey |-> neuron.hotkey,
     coldkey |-> neuron.coldkey,
     stake |-> Item(mg.S, neuron.uid),
     incentive |-> Item(mg.I, neuron.uid)]

\* one iteration of: for neuron in metagraph.neurons
LoopNeuron ==
    /\ pc = "loop"
    /\ idx <= Len(metagraph.val.neurons)
    /\ LET mg == metagraph.val
           neuron == mg.neurons[idx]
       IN  \/ /\ InRange(mg.S, neuron.uid)
              /\ InRange(mg.I, neuron.uid)
              /\ miners_info' = Append(miners_info, MinerData(mg, neuron))
              /\ idx' = idx + 1
              /\ UNCHANGED <<pc, miners, err, fetchEnd>>
           \/ /\ ~(InRange(mg.S, neuron.uid) /\ InRange(mg.I, neuron.uid))
              /\ Raise("index out of bounds", "trav_raise")
              /\ UNCHANGED <<idx, miners_info>>
           \/ \E e \in ExcTexts :
              /\ Raise(e, "trav_raise")
              /\ UNCHANGED <<idx, miners_info>>
    /\ UNCHANGED <<argVars, sub, metagraph, wIdx, fs, fs0, stdout, stderr,
                   exitCode, calls, exportEnd>>

\* variant: the empty snapshot returned without a note, as ([], None)
LoopEndEmptyNoNote ==
    /\ pc = "loop"
    /\ idx > Len(metagraph.val.neurons)
    /\ IF ~ListTruthy(Some(miners_info))
       THEN Return(Some(<<>>), None, "empty")
       ELSE Return(Some(miners_info), None, "ok")
    /\ UNCHANGED <<argVars, fetchVars, wIdx, fs, fs0, stdout, stderr, exitCode,
                   calls, exportEnd>>

\* after the loop: if not miners_info: return [], "No neurons ..."; else
\* return miners_info, None
LoopEnd ==
    /\ pc = "loop"
    /\ idx > Len(metagraph.val.neurons)
    /\ IF ~ListTruthy(Some(miners_info))
       THEN Return(Some(<<>>),
                   Some(FString("No neurons found in the metagraph for this subnet.", "")),
                   "empty")
       ELSE Return(Some(miners_info), None, "ok")
    /\ UNCHANGED <<argVars, fetchVars, wIdx, fs, fs0, stdout, stderr, exitCode,
                   calls, exportEnd>>

\* ------------------------------------------------------------------- main
\* sys.exit(code), or the return of main() (status 0)
Exit(code) ==
    /\ exitCode' = code
    /\ pc' = "exited"

\* variant: the error is printed and main() goes on instead of exiting
CheckErrNoExit ==
    /\ pc = "check_err"
    /\ IF StrTruthy(err)
       THEN stderr' = Append(stderr, FString("Error: ", err.val))
       ELSE UNCHANGED stderr
    /\ pc' = "check_empty"
    /\ UNCHANGED <<argVars, fetchVars, miners, err, wIdx, fs, fs0, stdout,
                   exitCode, calls, fetchEnd, exportEnd>>

\* if err: print(f"Error: {err}", file=sys.stderr); sys.exit(1)
CheckErr ==
    /\ pc = "check_err"
    /\ IF StrTruthy(err)
       THEN /\ stderr' = Append(stderr, FString("Error: ", err.val))
            /\ Exit(1)
       ELSE /\ pc' = "check_empty"
            /\ UNCHANGED <<stderr, exitCode>>
    /\ UNCHANGED <<argVars, fetchVars, miners, err, wIdx, fs, fs0, stdout,
                   calls, fetchEnd, exportEnd>>

\* if not miners: print(f"No miners found ..."); return
CheckEmpty ==
    /\ pc = "check_empty"
    /\ IF ~ListTruthy(miners)
       THEN /\ stdout' = Append(stdout,
                   FString("No miners found for netuid ", <<netuid, network>>))
            /\ Exit(0)
       ELSE /\ pc' = "makedirs"
            /\ UNCHANGED <<stdout, exitCode>>
    /\ UNCHANGED <<argVars, fetchVars, miners, err, wIdx, fs, fs0, stderr,
                   calls, fetchEnd, exportEnd>>

\* except IOError as e: print(..., file=sys.stderr); sys.exit(1)
HandleIOError(e, how) ==
    /\ stderr' = Append(stderr,
                   FString("Error writing to file ./output/miners.csv: ", e))
    /\ exportEnd' = how
    /\ Exit(1)

\* variant: the handler prints and main() returns, without sys.exit(1)
HandleExceptionNoExit(e, how) ==
    /\ stderr' = Append(stderr,
                   FString("An unexpected error occurred during file writing: ", e))
    /\ exportEnd' = how
    /\ Exit(0)

\* except Exception as e: print(..., file=sys.stderr); sys.exit(1)
HandleException(e, how) ==
    /\ stderr' = Append(stderr,
                   FString("An unexpected error occurred during file writing: ", e))
    /\ exportEnd' = how
    /\ Exit(1)

\* os.makedirs(output_dir, exist_ok=True)
MakeDirs ==
    /\ pc = "makedirs"
    /\ calls' = [calls EXCEPT !.makedirs = @ + 1]
    /\ \/ /\ fs.dir = "dir"
          /\ pc' = "open"
          /\ UNCHANGED <<fs, stderr, exitCode, exportEnd>>
       \/ /\ fs.dir = "absent"
          /\ fs' = [fs EXCEPT !.dir = "dir"]
          /\ pc' = "open"
          /\ UNCHANGED <<stderr, exitCode, exportEnd>>
       \/ /\ fs.dir = "absent"
          /\ HandleIOError("Permission denied", "makedirs")
          /\ UNCHANGED fs
       \/ /\ fs.dir = "notdir"
          /\ HandleIOError("File exists", "makedirs")
          /\ UNCHANGED fs
    /\ UNCHANGED <<argVars, fetchVars, miners, err, wIdx, fs0, stdout, fetchEnd>>

\* with open(output_file, 'w', newline='') as csvfile
OpenFile ==
    /\ pc = "open"
    /\ calls' = [calls EXCEPT !.open = @ + 1]
    /\ \/ /\ fs' = [fs EXCEPT !.exists = TRUE, !.content = OpenForWrite(fs.content)]
          /\ pc' = "header"
          /\ UNCHANGED <<stderr, exitCode, exportEnd>>
       \/ /\ HandleIOError("Permission denied", "open")
          /\ UNCHANGED fs
    /\ UNCHANGED <<argVars, fetchVars, miners, err, wIdx, fs0, stdout, fetchEnd>>

\* csvfile.write(text): the text reaches the file, or the write raises an
\* IOError (a full disk), or something else raises (an encoding error)
Write(text, next) ==
    \/ /\ fs' = [fs EXCEPT !.content = @ \o text]
       /\ pc' = next
       /\ UNCHANGED <<stderr, exitCode, exportEnd>>
    \/ /\ HandleIOError("No space left on device", "write_io")
       /\ UNCHANGED fs
    \/ /\ HandleException("codec can't encode character", "write_other")
       /\ UNCHANGED fs

\* writer = csv.DictWriter(csvfile, fieldnames=fieldnames); writer.writeheader()
WriteHeader ==
    /\ pc = "header"
    /\ Write(HeaderRow, "rows")
    /\ wIdx' = 1
    /\ UNCHANGED <<argVars, fetchVars, miners, err, fs0, stdout, calls, fetchEnd>>

\* variant: every row written from the first miner of the list
RowTextFirst(ms, i) == FormatRow(DictToList(RowDict(ms[1])))

\* the text writer.writerow({'uid': ..., 'coldkey': ..., 'hotkey': ...})
\* writes for the miner at position i of the list
RowText(ms, i) == FormatRow(DictToList(RowDict(ms[i])))

\* one iteration of: for miner in miners: writer.writerow({...})
WriteRow ==
    /\ pc = "rows"
    /\ wIdx <= Len(miners.val)
    /\ Write(RowText(miners.val, wIdx), "rows")
    /\ wIdx' = wIdx + 1
    /\ UNCHANGED <<argVars, fetchVars, miners, err, fs0, stdout, calls, fetchEnd>>

\* the with block ends; print(f"Successfully wrote miner data to ...");
\* main() returns
Finish ==
    /\ pc = "rows"
    /\ wIdx > Len(miners.val)
    /\ stdout' = Append(stdout,
                   FString("Successfully wrote miner data to ", output_file))
    /\ exportEnd' = "ok"
    /\ Exit(0)
    /\ UNCHANGED <<argVars, fetchVars, miners, err, wIdx, fs, fs0, stderr, calls,
                   fetchEnd>>

Next ==
    \/ CallGetMiners
    \/ Connect
    \/ GetMetagraph
    \/ LoopNeuron
    \/ LoopEnd
    \/ CheckErr
    \/ CheckEmpty
    \/ MakeDirs
    \/ OpenFile
    \/ WriteHeader
    \/ WriteRow
    \/ Finish

Spec == Init /\ [][Next]_vars

\* ================================================================ claims
\* ---------------------------------------------------------------- helpers
Exited == pc = "exited"
Succeeded == pc = "exited" /\ exitCode = 0

\* the fetch ended with the failure result
FetchFailures == {"conn_falsy", "conn_raise", "mg_falsy", "mg_raise", "trav_raise"}
FetchFailed == fetchEnd \in FetchFailures
ExportFailures == {"makedirs", "open", "write_io", "write_other"}
ExportFailed == exportEnd \in ExportFailures

\* the neurons of the snapshot that was retrieved
Snapshot == IF metagraph.isNone THEN <<>> ELSE metagraph.val.neurons

\* ------------------------------------------------------------- csv reader
\* Reading a text back as csv.reader does (excel dialect).  A character is
\* outside quotes when an even number of quote characters precedes it.
Outside(text, i) ==
    Cardinality({ j \in 1..(i - 1) : text[j] = QuoteChar }) % 2 = 0

\* the elements of a finite set of numbers in increasing order
Sorted(S) ==
    [k \in 1..Cardinality(S) |->
        CHOOSE x \in S : Cardinality({ y \in S : y < x }) = k - 1]

\* the pieces of a text between separators of the given width that start at
\* the positions seps; the piece after the last separator is kept when
\* keepLast holds or when it is not empty
Pieces(text, seps, width, keepLast) ==
    LET at == Sorted(seps)
        n == Len(at)
        from(k) == IF k = 1 THEN 1 ELSE at[k - 1] + width
        last == SubSeq(text, from(n + 1), Len(text))
        cut == [k \in 1..n |-> SubSeq(text, from(k), at[k] - 1)]
    IN  IF keepLast \/ last # <<>> THEN Append(cut, last) ELSE cut

\* the value of a field: the quotes around it removed, doubled quotes single
RECURSIVE UnDouble(_)
UnDouble(f) ==
    IF f = <<>> THEN <<>>
    ELSE IF Len(f) >= 2 /\ f[1] = QuoteChar /\ f[2] = QuoteChar
    THEN <<QuoteChar>> \o UnDouble(Tail(Tail(f)))
    ELSE <<Head(f)>> \o UnDouble(Tail(f))

Unquote(f) ==
    IF Len(f) >= 2 /\ f[1] = QuoteChar /\ f[Len(f)] = QuoteChar
    THEN UnDouble(SubSeq(f, 2, Len(f) - 1))
    ELSE f

\* the fields of one record
Fields(rec) ==
    LET raw == Pieces(rec,
                      { i \in 1..Len(rec) : rec[i] = Delimiter /\ Outside(rec, i) },
                      1, TRUE)
    IN  [k \in 1..Len(raw) |-> Unquote(raw[k])]

\* the records of a text, each the list of its fields
Records(text) ==
    LET raw == Pieces(text,
                      { i \in 1..(Len(text) - 1) :
                          /\ text[i] = "\r"
                          /\ text[i + 1] = "\n"
                          /\ Outside(text, i) },
                      2, FALSE)
    IN  [k \in 1..Len(raw) |-> Fields(raw[k])]

\* the physical lines of a text: the pieces that end with '\r\n', and the
\* unterminated rest if there is one
Lines(text) ==
    Pieces(text,
           { i \in 1..(Len(text) - 1) : text[i] = "\r" /\ text[i + 1] = "\n" },
           2, FALSE)

\* reading a decimal number back; -1 when the text is not a number
DigitVal(c) == CASE c = "0" -> 0 [] c = "1" -> 1 [] c = "2" -> 2 [] c = "3" -> 3
                 [] c = "4" -> 4 [] c = "5" -> 5 [] c = "6" -> 6 [] c = "7" -> 7
                 [] c = "8" -> 8 [] c = "9" -> 9 [] OTHER -> -1
RECURSIVE ParseIntFrom(_, _)
ParseIntFrom(text, acc) ==
    IF text = <<>> THEN acc
    ELSE IF DigitVal(Head(text)) < 0 THEN -1
    ELSE ParseIntFrom(Tail(text), 10 * acc + DigitVal(Head(text)))
ParseInt(text) == IF text = <<>> THEN -1 ELSE ParseIntFrom(text, 0)

HeaderFields == << <<"u", "i", "d">>,
                   <<"c", "o", "l", "d", "k", "e", "y">>,
                   <<"h", "o", "t", "k", "e", "y">> >>

\* a csv record is the row of a participant
IsRowOf(rec, p) ==
    /\ Len(rec) = 3
    /\ ParseInt(rec[1]) = p.uid
    /\ rec[2] = p.coldkey
    /\ rec[3] = p.hotkey

\* a text read as csv is the header followed by one row per element of ps
IsExportOf(text, ps) ==
    LET recs == Records(text)
    IN  /\ Len(recs) = Len(ps) + 1
        /\ recs[1] = HeaderFields
        /\ \A i \in 1..Len(ps) : IsRowOf(recs[i + 1], ps[i])

\* --------------------------------------------------------------------- C1
\* C1 (as stated): when the snapshot has zero participants the run exits
\* with code 0, prints one informational message on standard output and
\* nothing on standard error, and leaves the file system as it was.
C1_ZeroParticipantsExitClean ==
    (Exited /\ fetchEnd = "empty") =>
        /\ exitCode = 0
        /\ Len(stdout) = 1
        /\ stderr = <<>>
        /\ fs = fs0

\* --------------------------------------------------------------------- C2
\* C2: when the fetch fails, the run never calls makedirs or open, the file
\* system stays what it was at the start (a file already at the output path
\* keeps its content), and the run exits with code 1.
C2_FetchFailureWritesNothing ==
    FetchFailed =>
        /\ calls.makedirs = 0
        /\ calls.open = 0
        /\ fs = fs0
        /\ pc \in {"check_err", "exited"}
        /\ Exited => exitCode = 1

C2_Witness ==
    /\ Exited
    /\ fetchEnd = "trav_raise"
    /\ fs0.exists
    /\ Len(fs0.content) > Len(HeaderRow)

\* --------------------------------------------------------------------- C3
\* C3: after a successful run on a snapshot of N participants the file has
\* exactly N + 1 lines, the header and then one row per participant in
\* snapshot order, the uid of row i being the uid of participant i.
C3_OneLinePerParticipant ==
    Succeeded =>
        LET ls == Lines(fs.content)
            ns == Snapshot
        IN  /\ Len(ls) = Len(ns) + 1
            /\ Records(ls[1]) = <<HeaderFields>>
            /\ \A i \in 1..Len(ns) :
                  LET r == Records(ls[i + 1])
                  IN  Len(r) = 1 /\ ParseInt(r[1][1]) = ns[i].uid

C3_Witness ==
    /\ Succeeded
    /\ Len(Snapshot) = 2
    /\ Snapshot[1].uid = MaxUid
    /\ Snapshot[2].uid = 0
    /\ Snapshot[2].hotkey = hkComma

\* --------------------------------------------------------------------- C4
\* C4: when a file was already at the output path, after a successful run
\* the file read as csv is exactly the header and the rows of the current
\* snapshot, and no line of it is a row of the old content.
C4_OverwritesOldFile ==
    (Succeeded /\ fs0.exists) =>
        /\ IsExportOf(fs.content, Snapshot)
        /\ \A i \in 1..Len(Lines(fs.content)) :
              Lines(fs.content)[i] # Lines(OldRow)[1]

C4_Witness ==
    /\ Succeeded
    /\ fs0.exists
    /\ Len(Lines(fs0.content)) = MaxOldRows + 1
    /\ Len(fs0.content) > Len(fs.content)
    /\ Len(Snapshot) = 1

\* --------------------------------------------------------------------- C5
\* C5: after a successful run every record of the file has exactly three
\* fields, the header is uid,coldkey,hotkey, every row is uid, coldkey,
\* hotkey of its participant in that order, and for the snapshot
\* [{uid 0, hotkey hkA, coldkey ckA, stake 10, incentive 0.5}] the file is
\* the header line followed by the line 0,ckA,hkA.
ExampleSnapshot ==
    /\ ~metagraph.isNone
    /\ metagraph.val.neurons = << [uid |-> 0, hotkey |-> hkA, coldkey |-> ckA] >>
    /\ metagraph.val.S[1] = 10
    /\ metagraph.val.I[1] = 5

ExampleText ==
    << "u", "i", "d", ",", "c", "o", "l", "d", "k", "e", "y", ",",
       "h", "o", "t", "k", "e", "y", "\r", "\n",
       "0", ",", "c", "k", "A", ",", "h", "k", "A", "\r", "\n" >>

C5_ThreeFieldsInOrder ==
    Succeeded =>
        /\ \A i \in 1..Len(Records(fs.content)) : Len(Records(fs.content)[i]) = 3
        /\ Records(fs.content)[1] = HeaderFields
        /\ \A i \in 1..Len(Snapshot) :
              /\ i + 1 <= Len(Records(fs.content))
              /\ IsRowOf(Records(fs.content)[i + 1], Snapshot[i])
        /\ ExampleSnapshot => fs.content = ExampleText

C5_Witness == Succeeded /\ ExampleSnapshot

\* --------------------------------------------------------------------- C6
\* C6: a run that ends after a fetch error or after a failure of makedirs,
\* open or a write (IOError or any other exception) has printed on standard
\* error and has exit code 1, and no external operation was attempted more
\* than once.
C6_ErrorsExitOne ==
    /\ (Exited /\ (FetchFailed \/ ExportFailed)) =>
          /\ exitCode = 1
          /\ Len(stderr) = 1
          /\ stdout = <<>>
    /\ (FetchFailed \/ ExportFailed) => Exited \/ pc = "check_err"
    /\ calls.connect <= 1 /\ calls.metagraph <= 1
    /\ calls.makedirs <= 1 /\ calls.open <= 1

C6_Witness ==
    /\ Exited
    /\ exportEnd = "write_other"
    /\ wIdx = 2

\* --------------------------------------------------------------------- C7
\* C7: get_miners never lets an exception out; a falsy connection, a falsy
\* metagraph and every exception give (None, message) with a non-empty
\* message; a list is returned only when the loop went through the whole
\* snapshot.
C7_FetchNeverRaises ==
    /\ fetchEnd # "raised"
    /\ FetchFailed =>
          /\ miners.isNone
          /\ ~err.isNone
          /\ StrLen(err.val) > 0
    /\ ~miners.isNone =>
          /\ fetchEnd \in {"ok", "empty"}
          /\ Len(miners.val) = Len(Snapshot)

C7_Witness ==
    /\ fetchEnd = "trav_raise"
    /\ Len(miners_info) = 1
    /\ err.val[2] = "index out of bounds"
    /\ miners.isNone

\* --------------------------------------------------------------------- C8
\* C8 (as stated): for a snapshot of zero participants the fetcher returns
\* the empty list, and its caller treats the result as a success: the run
\* does not end with exit code 1 nor print on standard error.
C8_EmptyListIsSuccess ==
    fetchEnd = "empty" =>
        /\ ~miners.isNone
        /\ miners.val = <<>>
        /\ Exited => (exitCode # 1 /\ stderr = <<>>)

\* --------------------------------------------------------------------- C9
\* C9: on a successful fetch the list has one record per neuron of the
\* snapshot, in order, whatever the stake and incentive, and the stake and
\* incentive of a record are S[uid] and I[uid] of its neuron.
C9_OneRecordPerNeuron ==
    fetchEnd = "ok" =>
        /\ ~miners.isNone
        /\ err.isNone
        /\ Len(miners.val) = Len(Snapshot)
        /\ \A i \in 1..Len(Snapshot) :
              LET n == Snapshot[i]
                  m == miners.val[i]
              IN  /\ m.uid = n.uid
                  /\ m.hotkey = n.hotkey
                  /\ m.coldkey = n.coldkey
                  /\ m.stake = metagraph.val.S[n.uid + 1]
                  /\ m.incentive = metagraph.val.I[n.uid + 1]

C9_Witness ==
    /\ fetchEnd = "ok"
    /\ Len(miners.val) = 2
    /\ miners.val[1].uid = MaxUid
    /\ miners.val[1].stake = 0
    /\ miners.val[1].incentive = 0

\* -------------------------------------------------------------------- C10
\* C10: makedirs and open are reached only after the fetch returned a
\* non-empty list and no error message; a run that ends with exit code 0
\* has opened the file, which exists and holds the header and one row per
\* fetched record.
C10_ExportOnlyAfterFetch ==
    /\ (pc \in {"makedirs", "open", "header", "rows"}
          \/ calls.makedirs > 0 \/ calls.open > 0) =>
          /\ fetchEnd = "ok"
          /\ ListTruthy(miners)
          /\ err.isNone
    /\ Succeeded =>
          /\ calls.open = 1
          /\ exportEnd = "ok"
          /\ fs.exists
          /\ IsExportOf(fs.content, miners.val)

C10_Witness ==
    /\ Succeeded
    /\ fs0.dir = "absent"
    /\ fs.dir = "dir"
    /\ fs.exists
    /\ Len(miners.val) = MaxNeurons

====
